---- MODULE Spec2Model ----
(***************************************************************************)
(* Model of steer-driven-runner: the iteration control loop of             *)
(* AutonomousRunner.run (runner.py), the feedback store (feedback.py),     *)
(* the state snapshot file (state.py) and the dashboard's polling read     *)
(* (monitor.py).  The Controller, the human (posting feedback, creating    *)
(* the stop sentinel), the agent subprocess and the Dashboard are          *)
(* separate processes that interleave through the filesystem.              *)
(***************************************************************************)
EXTENDS Integers, Sequences, FiniteSets, TLC

(* ---- bounds of the model ---- *)
MaxIterationsBound == 3        \* Config.max_iterations ranges over 0..bound
MaxCheckpointBound == 3        \* Config.checkpoint_interval ranges over 0..bound
MaxNoProgressBound == 3        \* Config.max_no_progress ranges over 0..bound
MaxFailuresBound == 3          \* Config.max_consecutive_failures ranges over 0..bound
MaxPosts == 2                  \* number of feedback posts by the human in one run
MaxClock == 1                  \* wall clock seconds 0..MaxClock
MaxRev == 2                    \* revisions 1..MaxRev (0 is "no HEAD")
MaxRuns == 2                   \* Controller processes started one after another
FullLen == 2                   \* number of chunks json.dump writes in one save

(* ---- program constants ---- *)
EXIT_OK == 0
EXIT_FAILED == 1
EXIT_COMPLETE == 99
EXIT_OTHER == 2                \* a representative of the unknown exit codes
NoExit == -1                   \* exit_code before the first invocation returned
NoCommit == 0                  \* _get_current_commit() returned None

ExitCodes == {EXIT_OK, EXIT_FAILED, EXIT_OTHER, EXIT_COMPLETE}
Markers == 0..MaxRev

VARIABLES
    \* Config
    max_iterations, checkpoint_interval, max_no_progress,
    max_consecutive_failures, steering_ok, codex_installed,
    \* AutonomousRunner
    pc, iteration, consecutive_failures, no_progress_count,
    feedback_content, commit_before, commit_after, exit_code,
    save_return, retval, outcome,
    \* filesystem and repository
    head, state_file, stop_file, pending_file, archive, archive_dir, now,
    posted,
    \* DevelopmentMonitor
    last_state, monitor_raw, monitor_pc,
    \* history
    invocations, all_unchanged, all_ok, since_stop, trailing_failures,
    trailing_unchanged, runs,
    \* the stores called on their own: State.save/load, FeedbackManager
    mem_state, disk_doc, load_result, read_result, store_op, saved, fb_ret

config_vars == <<max_iterations, checkpoint_interval, max_no_progress,
                 max_consecutive_failures, steering_ok, codex_installed>>
runner_vars == <<pc, iteration, consecutive_failures, no_progress_count,
                 feedback_content, commit_before, commit_after, exit_code,
                 save_return, retval, outcome>>
env_vars == <<head, state_file, stop_file, pending_file, archive, archive_dir,
              now, posted>>
monitor_vars == <<last_state, monitor_raw, monitor_pc>>
hist_vars == <<invocations, all_unchanged, all_ok, since_stop,
               trailing_failures, trailing_unchanged, runs>>
store_vars == <<mem_state, disk_doc, load_result, read_result, store_op, saved,
                fb_ret>>
vars == <<config_vars, runner_vars, env_vars, monitor_vars, hist_vars,
          store_vars>>

(* ---- state.py ---- *)
MkState(status, current, specified, task_status) ==
    [status |-> status, current |-> current, specified |-> specified,
     task_status |-> task_status]

create_waiting(max_iter) == MkState("waiting", 0, max_iter, "pending")

NoStateFile == [exists |-> FALSE, snap |-> create_waiting(0), bytes |-> 0]

\* open(path, "w") of State.save: the file exists and is empty
save_open(snap) == [exists |-> TRUE, snap |-> snap, bytes |-> 0]

\* State.load: None for a missing file and for content json.load rejects
load_ok(file) == file.exists /\ file.bytes = FullLen

(* ---- state.py: the State document, save and load ---- *)
\* enum members and their values
RunStatusValue ==
    [WAITING |-> "waiting", RUNNING |-> "running", STOPPED |-> "stopped",
     ERROR |-> "error"]

TaskStatusValue ==
    [PENDING |-> "pending", IN_PROGRESS |-> "in_progress",
     COMPLETED |-> "completed", ERROR |-> "error"]

RunStatusNames == DOMAIN RunStatusValue
TaskStatusNames == DOMAIN TaskStatusValue

\* a State object: enum fields hold members, timestamp a datetime
State(status, current, specified, total_lines, file_count, description, task_status, last_output, timestamp) ==
    [status |-> status, current |-> current, specified |-> specified,
     total_lines |-> total_lines, file_count |-> file_count,
     description |-> description, task_status |-> task_status,
     last_output |-> last_output, timestamp |-> timestamp]

\* State.create_waiting with every field; timestamp from default_factory
create_waiting_state(max_iter, ts) ==
    State("WAITING", 0, max_iter, 0, 0,
          "Waiting for autonomous runner to start...", "PENDING", "", ts)

\* datetime.isoformat and pydantic's parse of it
isoformat(t) == <<"T", t>>
fromisoformat(text) == text[2]

\* the member with the given value, or "INVALID"
enum_member(values, v) ==
    IF \E m \in DOMAIN values : values[m] = v
    THEN CHOOSE m \in DOMAIN values : values[m] = v
    ELSE "INVALID"

\* keys of the JSON object; the last three have defaults in State
RequiredKeys == {"status", "iteration", "current_task"}
AllKeys == RequiredKeys \cup {"code_metrics", "last_output", "timestamp"}

\* variant: enum fields are written by member name, not by value
json_dump_names(st) ==
    [kind |-> "object", keys |-> AllKeys,
     body |-> [st EXCEPT !.timestamp = isoformat(st.timestamp)]]

\* self.model_dump(mode="json") written by json.dump
json_dump(st) ==
    [kind |-> "object", keys |-> AllKeys,
     body |-> [st EXCEPT !.status = RunStatusValue[st.status],
                         !.task_status = TaskStatusValue[st.task_status],
                         !.timestamp = isoformat(st.timestamp)]]

NoDoc == [kind |-> "absent", keys |-> {},
          body |-> json_dump(create_waiting_state(0, 0)).body]

\* file contents that are not a snapshot written by save
MalformedKinds == {"empty", "truncated", "not_json", "array", "null",
                   "number", "string"}

\* result of State.load: raised (an exception leaves load), or a State
\* (ok), or None
LoadRaised == [raised |-> TRUE, ok |-> FALSE, state |-> create_waiting_state(0, 0)]
LoadNone == [raised |-> FALSE, ok |-> FALSE, state |-> create_waiting_state(0, 0)]
LoadState(st) == [raised |-> FALSE, ok |-> TRUE, state |-> st]

\* cls(**data): pydantic validation of a JSON object
validate_state(doc, ts) ==
    IF \/ RequiredKeys \ doc.keys # {}
       \/ enum_member(RunStatusValue, doc.body.status) = "INVALID"
       \/ enum_member(TaskStatusValue, doc.body.task_status) = "INVALID"
    THEN LoadNone
    ELSE LoadState(State(
             enum_member(RunStatusValue, doc.body.status),
             doc.body.current, doc.body.specified,
             IF "code_metrics" \in doc.keys THEN doc.body.total_lines ELSE 0,
             IF "code_metrics" \in doc.keys THEN doc.body.file_count ELSE 0,
             doc.body.description,
             enum_member(TaskStatusValue, doc.body.task_status),
             IF "last_output" \in doc.keys THEN doc.body.last_output ELSE "",
             IF "timestamp" \in doc.keys
             THEN fromisoformat(doc.body.timestamp) ELSE ts))

\* variant: every exception of the parse is caught
State_load_catch_all(doc, ts) ==
    IF doc.kind = "absent" THEN LoadNone
    ELSE IF doc.kind = "object" THEN validate_state(doc, ts)
    ELSE LoadNone

\* State.load: json.JSONDecodeError and ValueError are caught; the
\* TypeError of cls(**data) for data that is no mapping is not
State_load(doc, ts) ==
    IF doc.kind = "absent" THEN LoadNone
    ELSE IF doc.kind \in {"empty", "truncated", "not_json"} THEN LoadNone
    ELSE IF doc.kind = "object" THEN validate_state(doc, ts)
    ELSE LoadRaised

\* DevelopmentMonitor.read_state on a document
read_state(doc, max_iter, ts) ==
    LET r == State_load(doc, ts) IN
    IF r.raised THEN LoadRaised
    ELSE IF r.ok THEN r
    ELSE LoadState(create_waiting_state(max_iter, ts))

(* ---- feedback.py ---- *)
NoFile == [exists |-> FALSE, content |-> <<>>]

has_pending_feedback(file) == file.exists

read_pending_feedback(file) == IF has_pending_feedback(file) THEN file ELSE NoFile

post_feedback(file, msg) ==
    [exists |-> TRUE, content |-> Append(file.content, msg)]

NoPath == -1                   \* archive_feedback() returned None

\* variant: the archive directory is made before the pending check
archive_feedback_mkdir_first(file, arch, dir, ts) ==
    IF ~has_pending_feedback(file)
    THEN [pending |-> file, archive |-> arch, dir |-> TRUE, ret |-> NoPath]
    ELSE [pending |-> NoFile, archive |-> [arch EXCEPT ![ts] = file],
          dir |-> TRUE, ret |-> ts]

\* archive_feedback: the pending log, the archive directory and its files
\* afterwards, and the returned path (the timestamp that names the file)
archive_feedback(file, arch, dir, ts) ==
    IF ~has_pending_feedback(file)
    THEN [pending |-> file, archive |-> arch, dir |-> dir, ret |-> NoPath]
    ELSE [pending |-> NoFile, archive |-> [arch EXCEPT ![ts] = file],
          dir |-> TRUE, ret |-> ts]

\* clear_feedback: the pending log afterwards and the returned flag
clear_feedback(file) ==
    IF has_pending_feedback(file)
    THEN [pending |-> NoFile, ret |-> TRUE]
    ELSE [pending |-> file, ret |-> FALSE]

(* ---- runner.py: decisions of the loop ---- *)
\* variant: the sentinel is detected but not unlinked
check_stop_file_never(sf) == [stop |-> FALSE, stop_file |-> sf]
check_stop_file_keep(sf) == [stop |-> sf, stop_file |-> sf]

\* _check_stop_file: whether to stop, and the sentinel afterwards
check_stop_file(sf) == [stop |-> sf, stop_file |-> FALSE]

\* variant: the comparison is inverted
no_progress_known(before, after) == before # NoCommit /\ before = after
no_progress_inverted(before, after) == before # after

no_progress(before, after) == before = after

\* variant: the threshold comparison is strict
breaker_trips_strict(count, max_np) == count > max_np

breaker_trips(count, max_np) == count >= max_np

\* variant: the commit comparison is left out
should_archive_any(code, before, after, file) ==
    code = EXIT_OK /\ has_pending_feedback(file)

should_archive(code, before, after, file) ==
    code = EXIT_OK /\ before # after /\ has_pending_feedback(file)

\* variant: the threshold comparison is strict
escalates_strict(failures, max_f) == failures > max_f

escalates(failures, max_f) == failures >= max_f

\* variant: the boundary is taken one iteration early
is_checkpoint_never(it, interval) == FALSE
is_checkpoint_early(it, interval) == (it + 1) % interval = 0

is_checkpoint(it, interval) == it % interval = 0

\* variant: the loop condition admits one iteration too many
loop_continues_incl(it, max_it) == it <= max_it

\* the while condition of run()
loop_continues(it, max_it) == it < max_it

\* variant: run() reports success whatever the agent's exit code
exit_status_zero(code) == 0

\* return value of run() when _handle_exit_code said stop
exit_status(code) == IF code \in {EXIT_OK, EXIT_COMPLETE} THEN 0 ELSE code

\* variant: the checkpoint pause is reported as success
run_returns_pause_ok(o, code) ==
    CASE o = "NoSteering" -> 1
      [] o = "Stop" -> 0
      [] o = "CircuitBreaker" -> 1
      [] o = "Checkpoint" -> 0
      [] o = "MaxIterations" -> 2
      [] OTHER -> exit_status(code)

\* the value each return statement of run() yields, by terminal outcome
run_returns(o, code) ==
    CASE o = "NoSteering" -> 1
      [] o = "Stop" -> 0
      [] o = "CircuitBreaker" -> 1
      [] o = "Checkpoint" -> 2
      [] o = "MaxIterations" -> 2
      [] OTHER -> exit_status(code)

TypeOK ==
    /\ pc \in {"validate", "loop", "saving", "stop_check", "read_feedback",
               "commit_before", "run_codex", "codex", "commit_after",
               "breaker", "handle", "checkpoint", "return_exit",
               "return_checkpoint", "return_max", "done", "crashed"}
    /\ iteration \in 0..MaxIterationsBound
    /\ head \in Markers /\ commit_before \in Markers /\ commit_after \in Markers
    /\ exit_code \in ExitCodes \cup {NoExit}
    /\ stop_file \in BOOLEAN
    /\ now \in 0..MaxClock
    /\ posted \in 0..MaxPosts

\* AutonomousRunner.__init__ and the files of a fresh project
InitRun ==
    /\ pc = "validate"
    /\ iteration = 0
    /\ consecutive_failures = 0
    /\ no_progress_count = 0
    /\ feedback_content = NoFile
    /\ commit_before = NoCommit
    /\ commit_after = NoCommit
    /\ exit_code = NoExit
    /\ save_return = "none"
    /\ retval = -1
    /\ outcome = "none"
    /\ head \in {NoCommit, 1}
    /\ state_file = NoStateFile
    /\ stop_file = FALSE
    /\ pending_file = NoFile
    /\ archive = [t \in 0..MaxClock |-> NoFile]
    /\ archive_dir = FALSE
    /\ now = 0
    /\ posted = 0
    /\ last_state = create_waiting(0)
    /\ monitor_raw = "unread"
    /\ monitor_pc = "start"
    /\ invocations = 0
    /\ all_unchanged = TRUE
    /\ all_ok = TRUE
    /\ since_stop = 0
    /\ trailing_failures = 0
    /\ trailing_unchanged = 0
    /\ runs = 1

\* the stores before any direct call
InitStore ==
    /\ mem_state = create_waiting_state(0, 0)
    /\ disk_doc = NoDoc
    /\ load_result = LoadNone
    /\ read_result = LoadNone
    /\ store_op = "none"
    /\ saved = FALSE
    /\ fb_ret = NoPath

(* ---- AutonomousRunner.run ---- *)
\* variant: specified is taken from the iteration argument
WriteState_specified_current(status, it, task_status, cont) ==
    /\ state_file' = save_open(MkState(status, it, it, task_status))
    /\ pc' = "saving"
    /\ save_return' = cont

\* _write_state up to the open(path, "w") of State.save; the dump follows
WriteState(status, it, task_status, cont) ==
    /\ state_file' = save_open(MkState(status, it, max_iterations, task_status))
    /\ pc' = "saving"
    /\ save_return' = cont

Validate ==
    /\ pc = "validate"
    /\ IF steering_ok
       THEN /\ pc' = "loop"
            /\ UNCHANGED <<retval, outcome>>
       ELSE /\ pc' = "done"
            /\ retval' = run_returns("NoSteering", exit_code)
            /\ outcome' = "NoSteering"
    /\ UNCHANGED <<iteration, consecutive_failures, no_progress_count,
                   feedback_content, commit_before, commit_after, exit_code,
                   save_return>>
    /\ UNCHANGED <<store_vars, config_vars, env_vars, monitor_vars, hist_vars>>

LoopHead ==
    /\ pc = "loop"
    /\ loop_continues(iteration, max_iterations)
    /\ iteration' = iteration + 1
    /\ IF checkpoint_interval = 0
       THEN /\ pc' = "crashed"
            /\ UNCHANGED <<state_file, save_return>>
       ELSE WriteState("running", iteration + 1, "in_progress", "stop_check")
    /\ UNCHANGED <<consecutive_failures, no_progress_count, feedback_content,
                   commit_before, commit_after, exit_code, retval, outcome>>
    /\ UNCHANGED <<head, stop_file, pending_file, archive, archive_dir, now, posted>>
    /\ UNCHANGED <<store_vars, config_vars, monitor_vars, hist_vars>>

LoopExit ==
    /\ pc = "loop"
    /\ ~loop_continues(iteration, max_iterations)
    /\ outcome' = "MaxIterations"
    /\ WriteState("stopped", max_iterations, "pending", "return_max")
    /\ UNCHANGED <<iteration, consecutive_failures, no_progress_count,
                   feedback_content, commit_before, commit_after, exit_code,
                   retval>>
    /\ UNCHANGED <<head, stop_file, pending_file, archive, archive_dir, now, posted>>
    /\ UNCHANGED <<store_vars, config_vars, monitor_vars, hist_vars>>

\* json.dump and the close of State.save
SaveDump ==
    /\ pc = "saving"
    /\ \E n \in (state_file.bytes + 1)..FullLen :
         /\ state_file' = [state_file EXCEPT !.bytes = n]
         /\ pc' = IF n = FullLen THEN save_return ELSE "saving"
    /\ UNCHANGED <<iteration, consecutive_failures, no_progress_count,
                   feedback_content, commit_before, commit_after, exit_code,
                   save_return, retval, outcome>>
    /\ UNCHANGED <<head, stop_file, pending_file, archive, archive_dir, now, posted>>
    /\ UNCHANGED <<store_vars, config_vars, monitor_vars, hist_vars>>

\* variant: the stop path persists a STOPPED snapshot before returning
StopCheck_writes_stopped ==
    /\ pc = "stop_check"
    /\ LET r == check_stop_file(stop_file) IN
       IF r.stop
       THEN /\ stop_file' = r.stop_file
            /\ outcome' = "Stop"
            /\ WriteState("stopped", iteration, "pending", "return_exit")
       ELSE /\ pc' = "read_feedback"
            /\ UNCHANGED <<stop_file, state_file, save_return, outcome>>
    /\ UNCHANGED <<iteration, consecutive_failures, no_progress_count,
                   feedback_content, commit_before, commit_after, exit_code,
                   retval>>
    /\ UNCHANGED <<head, pending_file, archive, archive_dir, now, posted>>
    /\ UNCHANGED <<store_vars, config_vars, monitor_vars, hist_vars>>

StopCheck ==
    /\ pc = "stop_check"
    /\ LET r == check_stop_file(stop_file) IN
       IF r.stop
       THEN /\ stop_file' = r.stop_file
            /\ pc' = "done"
            /\ retval' = run_returns("Stop", exit_code)
            /\ outcome' = "Stop"
       ELSE /\ pc' = "read_feedback"
            /\ UNCHANGED <<stop_file, retval, outcome>>
    /\ UNCHANGED <<iteration, consecutive_failures, no_progress_count,
                   feedback_content, commit_before, commit_after, exit_code,
                   save_return>>
    /\ UNCHANGED <<head, state_file, pending_file, archive, archive_dir, now, posted>>
    /\ UNCHANGED <<store_vars, config_vars, monitor_vars, hist_vars>>

ReadFeedback ==
    /\ pc = "read_feedback"
    /\ feedback_content' = read_pending_feedback(pending_file)
    /\ pc' = "commit_before"
    /\ UNCHANGED <<iteration, consecutive_failures, no_progress_count,
                   commit_before, commit_after, exit_code, save_return,
                   retval, outcome>>
    /\ UNCHANGED <<store_vars, config_vars, env_vars, monitor_vars, hist_vars>>

GetCommitBefore ==
    /\ pc = "commit_before"
    /\ commit_before' = head
    /\ pc' = "run_codex"
    /\ UNCHANGED <<iteration, consecutive_failures, no_progress_count,
                   feedback_content, commit_after, exit_code, save_return,
                   retval, outcome>>
    /\ UNCHANGED <<store_vars, config_vars, env_vars, monitor_vars, hist_vars>>

\* _run_codex: subprocess.run starts the agent
RunCodex ==
    /\ pc = "run_codex"
    /\ codex_installed
    /\ pc' = "codex"
    /\ invocations' = invocations + 1
    /\ since_stop' = IF stop_file THEN since_stop + 1 ELSE since_stop
    /\ UNCHANGED <<iteration, consecutive_failures, no_progress_count,
                   feedback_content, commit_before, commit_after, exit_code,
                   save_return, retval, outcome>>
    /\ UNCHANGED <<store_vars, config_vars, env_vars, monitor_vars, all_unchanged, all_ok,
                   trailing_failures, trailing_unchanged, runs>>

\* variant: a command that cannot be launched counts as a successful iteration
run_codex_not_found_ok == EXIT_OK

\* what _run_codex returns from its except FileNotFoundError branch
run_codex_not_found == EXIT_FAILED

\* _run_codex: the command is not found, FileNotFoundError is turned into 1
CodexNotFound ==
    /\ pc = "run_codex"
    /\ ~codex_installed
    /\ exit_code' = run_codex_not_found
    /\ pc' = "commit_after"
    /\ invocations' = invocations + 1
    /\ since_stop' = IF stop_file THEN since_stop + 1 ELSE since_stop
    /\ all_ok' = (all_ok /\ run_codex_not_found = EXIT_OK)
    /\ trailing_failures' = IF run_codex_not_found = EXIT_FAILED
                             THEN trailing_failures + 1 ELSE 0
    /\ UNCHANGED <<iteration, consecutive_failures, no_progress_count,
                   feedback_content, commit_before, commit_after,
                   save_return, retval, outcome>>
    /\ UNCHANGED <<store_vars, config_vars, env_vars, monitor_vars, all_unchanged,
                   trailing_unchanged, runs>>

\* the agent subprocess ends: it leaves HEAD somewhere and an exit code
CodexExit ==
    /\ pc = "codex"
    /\ \E code \in ExitCodes, h \in Markers :
         /\ exit_code' = code
         /\ head' = h
         /\ all_ok' = (all_ok /\ code = EXIT_OK)
         /\ trailing_failures' = IF code = EXIT_FAILED
                                 THEN trailing_failures + 1 ELSE 0
    /\ pc' = "commit_after"
    /\ UNCHANGED <<iteration, consecutive_failures, no_progress_count,
                   feedback_content, commit_before, commit_after,
                   save_return, retval, outcome>>
    /\ UNCHANGED <<state_file, stop_file, pending_file, archive, archive_dir, now, posted>>
    /\ UNCHANGED <<store_vars, config_vars, monitor_vars, invocations, all_unchanged,
                   since_stop, trailing_unchanged, runs>>

GetCommitAfter ==
    /\ pc = "commit_after"
    /\ commit_after' = head
    /\ pc' = "breaker"
    /\ trailing_unchanged' = IF commit_before = head
                             THEN trailing_unchanged + 1 ELSE 0
    /\ UNCHANGED <<iteration, consecutive_failures, no_progress_count,
                   feedback_content, commit_before, exit_code, save_return,
                   retval, outcome>>
    /\ UNCHANGED <<store_vars, config_vars, env_vars, monitor_vars, invocations,
                   all_unchanged, all_ok, since_stop, trailing_failures, runs>>

\* circuit breaker: runner.py lines 445-464
CircuitBreaker ==
    /\ pc = "breaker"
    /\ IF no_progress(commit_before, commit_after)
       THEN /\ no_progress_count' = no_progress_count + 1
            /\ IF breaker_trips(no_progress_count + 1, max_no_progress)
               THEN /\ pc' = "done"
                    /\ retval' = run_returns("CircuitBreaker", exit_code)
                    /\ outcome' = "CircuitBreaker"
               ELSE /\ pc' = "handle"
                    /\ UNCHANGED <<retval, outcome>>
       ELSE /\ no_progress_count' = 0
            /\ pc' = "handle"
            /\ UNCHANGED <<retval, outcome>>
    /\ all_unchanged' = (all_unchanged /\ commit_before = commit_after)
    /\ UNCHANGED <<iteration, consecutive_failures, feedback_content,
                   commit_before, commit_after, exit_code, save_return>>
    /\ UNCHANGED <<store_vars, config_vars, env_vars, monitor_vars, invocations, all_ok,
                   since_stop, trailing_failures, trailing_unchanged, runs>>

\* _handle_exit_code and, when it returns False, the final _write_state
HandleExitCode ==
    /\ pc = "handle"
    /\ IF exit_code = EXIT_OK
       THEN /\ consecutive_failures' = 0
            /\ LET r == IF should_archive(exit_code, commit_before,
                                          commit_after, pending_file)
                        THEN archive_feedback(pending_file, archive,
                                              archive_dir, now)
                        ELSE [pending |-> pending_file, archive |-> archive,
                              dir |-> archive_dir, ret |-> NoPath]
               IN /\ pending_file' = r.pending
                  /\ archive' = r.archive
                  /\ archive_dir' = r.dir
            /\ pc' = "checkpoint"
            /\ UNCHANGED <<state_file, save_return, outcome>>
       ELSE IF exit_code = EXIT_COMPLETE
       THEN /\ outcome' = "Complete"
            /\ WriteState("stopped", iteration, "completed", "return_exit")
            /\ UNCHANGED <<consecutive_failures, pending_file, archive, archive_dir>>
       ELSE IF exit_code = EXIT_FAILED
       THEN /\ consecutive_failures' = consecutive_failures + 1
            /\ IF escalates(consecutive_failures + 1, max_consecutive_failures)
               THEN /\ outcome' = "Escalated"
                    /\ WriteState("stopped", iteration, "completed", "return_exit")
               ELSE /\ pc' = "checkpoint"
                    /\ UNCHANGED <<state_file, save_return, outcome>>
            /\ UNCHANGED <<pending_file, archive, archive_dir>>
       ELSE /\ outcome' = "Unknown"
            /\ WriteState("stopped", iteration, "completed", "return_exit")
            /\ UNCHANGED <<consecutive_failures, pending_file, archive, archive_dir>>
    /\ UNCHANGED <<iteration, no_progress_count, feedback_content,
                   commit_before, commit_after, exit_code, retval>>
    /\ UNCHANGED <<head, stop_file, now, posted>>
    /\ UNCHANGED <<store_vars, config_vars, monitor_vars, hist_vars>>

ReturnExit ==
    /\ pc = "return_exit"
    /\ retval' = run_returns(outcome, exit_code)
    /\ pc' = "done"
    /\ UNCHANGED <<iteration, consecutive_failures, no_progress_count,
                   feedback_content, commit_before, commit_after, exit_code,
                   save_return, outcome>>
    /\ UNCHANGED <<store_vars, config_vars, env_vars, monitor_vars, hist_vars>>

\* checkpoint check, or the sleep before the next iteration
Checkpoint ==
    /\ pc = "checkpoint"
    /\ IF is_checkpoint(iteration, checkpoint_interval)
       THEN /\ outcome' = "Checkpoint"
            /\ WriteState("stopped", iteration, "pending", "return_checkpoint")
       ELSE /\ pc' = "loop"
            /\ UNCHANGED <<state_file, save_return, outcome>>
    /\ UNCHANGED <<iteration, consecutive_failures, no_progress_count,
                   feedback_content, commit_before, commit_after, exit_code,
                   retval>>
    /\ UNCHANGED <<head, stop_file, pending_file, archive, archive_dir, now, posted>>
    /\ UNCHANGED <<store_vars, config_vars, monitor_vars, hist_vars>>

ReturnCheckpoint ==
    /\ pc = "return_checkpoint"
    /\ retval' = run_returns("Checkpoint", exit_code)
    /\ pc' = "done"
    /\ UNCHANGED <<iteration, consecutive_failures, no_progress_count,
                   feedback_content, commit_before, commit_after, exit_code,
                   save_return, outcome>>
    /\ UNCHANGED <<store_vars, config_vars, env_vars, monitor_vars, hist_vars>>

ReturnMax ==
    /\ pc = "return_max"
    /\ retval' = run_returns("MaxIterations", exit_code)
    /\ pc' = "done"
    /\ UNCHANGED <<iteration, consecutive_failures, no_progress_count,
                   feedback_content, commit_before, commit_after, exit_code,
                   save_return, outcome>>
    /\ UNCHANGED <<store_vars, config_vars, env_vars, monitor_vars, hist_vars>>

Running == pc \notin {"done", "crashed"}

(* ---- the Controller started again ---- *)
\* variant: the loop counter is resumed from the snapshot in the state file
start_iteration_resumed(file) == IF load_ok(file) THEN file.snap.current ELSE 0

\* run(): iteration = 0; the state file is not consulted
start_iteration(file) == 0

\* after run() returned, a new process is started on the same project:
\* AutonomousRunner.__init__ and the entry of run(); the files stay
NewRun ==
    /\ pc = "done"
    /\ runs < MaxRuns
    /\ runs' = runs + 1
    /\ pc' = "validate"
    /\ iteration' = start_iteration(state_file)
    /\ consecutive_failures' = 0
    /\ no_progress_count' = 0
    /\ feedback_content' = NoFile
    /\ commit_before' = NoCommit
    /\ commit_after' = NoCommit
    /\ exit_code' = NoExit
    /\ save_return' = "none"
    /\ retval' = -1
    /\ outcome' = "none"
    /\ trailing_failures' = 0
    /\ trailing_unchanged' = 0
    /\ UNCHANGED <<invocations, all_unchanged, all_ok, since_stop>>
    /\ UNCHANGED <<store_vars, config_vars, env_vars, monitor_vars>>

(* ---- the human ---- *)
\* cli feedback -> FeedbackManager.post_feedback
HumanPost ==
    /\ Running
    /\ posted < MaxPosts
    /\ posted' = posted + 1
    /\ pending_file' = post_feedback(pending_file, posted + 1)
    /\ UNCHANGED <<head, state_file, stop_file, archive, archive_dir, now>>
    /\ UNCHANGED <<store_vars, config_vars, runner_vars, monitor_vars, hist_vars>>

\* the human creates stop.txt
HumanStop ==
    /\ Running
    /\ ~stop_file
    /\ stop_file' = TRUE
    /\ since_stop' = 0
    /\ UNCHANGED <<head, state_file, pending_file, archive, archive_dir, now, posted>>
    /\ UNCHANGED <<store_vars, config_vars, runner_vars, monitor_vars, invocations,
                   all_unchanged, all_ok, trailing_failures,
                   trailing_unchanged, runs>>

\* datetime.now() advances by a second
Tick ==
    /\ Running
    /\ now < MaxClock
    /\ now' = now + 1
    /\ UNCHANGED <<head, state_file, stop_file, pending_file, archive, archive_dir, posted>>
    /\ UNCHANGED <<store_vars, config_vars, runner_vars, monitor_vars, hist_vars>>

(* ---- DevelopmentMonitor ---- *)
\* variant: State.load opens the state file for writing
open_read_truncates(file) == [file EXCEPT !.bytes = 0]

\* State.load: open(path, "r") leaves the file as it is
open_read(file) == file

\* what json.load finds in the state file at the moment of the read
load_sees(file) ==
    IF ~file.exists THEN "absent"
    ELSE IF file.bytes < FullLen THEN "partial"
    ELSE "complete"

\* the state file after State.load: no open when the path does not exist
load_leaves(file) == IF file.exists THEN open_read(file) ELSE file

\* run(): the first read_state, rendered when Live is entered
MonitorStart ==
    /\ monitor_pc = "start"
    /\ monitor_raw' = load_sees(state_file)
    /\ state_file' = load_leaves(state_file)
    /\ monitor_pc' = "polling"
    /\ UNCHANGED <<last_state, head, stop_file, pending_file, archive,
                   archive_dir, now, posted>>
    /\ UNCHANGED <<store_vars, config_vars, runner_vars, hist_vars>>

\* one turn of the polling loop: read_state (State.load, or the waiting
\* state when load returns None), kept in last_state and rendered
MonitorRead ==
    /\ monitor_pc = "polling"
    /\ monitor_raw' = load_sees(state_file)
    /\ last_state' = IF load_ok(state_file) THEN state_file.snap
                     ELSE create_waiting(max_iterations)
    /\ state_file' = load_leaves(state_file)
    /\ UNCHANGED <<monitor_pc, head, stop_file, pending_file, archive,
                   archive_dir, now, posted>>
    /\ UNCHANGED <<store_vars, config_vars, runner_vars, hist_vars>>

\* KeyboardInterrupt: run() prints a line and returns
MonitorInterrupt ==
    /\ monitor_pc \in {"start", "polling"}
    /\ monitor_pc' = "stopped"
    /\ UNCHANGED <<last_state, monitor_raw>>
    /\ UNCHANGED <<store_vars, config_vars, runner_vars, env_vars, hist_vars>>

\* Config: every field is a plain int, no validation
Init ==
    /\ max_iterations \in 0..MaxIterationsBound
    /\ checkpoint_interval \in 0..MaxCheckpointBound
    /\ max_no_progress \in 0..MaxNoProgressBound
    /\ max_consecutive_failures \in 0..MaxFailuresBound
    /\ steering_ok \in BOOLEAN
    /\ codex_installed \in BOOLEAN
    /\ InitRun
    /\ InitStore

\* Config with the circuit breaker thresholds at their defaults (3 and 3)
InitDefault ==
    /\ max_iterations \in 1..MaxIterationsBound
    /\ checkpoint_interval \in 1..MaxCheckpointBound
    /\ max_no_progress = MaxNoProgressBound
    /\ max_consecutive_failures = MaxFailuresBound
    /\ steering_ok = TRUE
    /\ codex_installed \in BOOLEAN
    /\ InitRun
    /\ InitStore

\* the Controller and the stop sentinel
Next ==
    \/ Validate
    \/ LoopHead
    \/ LoopExit
    \/ SaveDump
    \/ StopCheck
    \/ ReadFeedback
    \/ GetCommitBefore
    \/ RunCodex
    \/ CodexExit
    \/ CodexNotFound
    \/ GetCommitAfter
    \/ CircuitBreaker
    \/ HandleExitCode
    \/ ReturnExit
    \/ Checkpoint
    \/ ReturnCheckpoint
    \/ ReturnMax
    \/ HumanStop

Spec == Init /\ [][Next]_vars

\* the Controller, the stop sentinel and the human posting feedback
NextFeedback ==
    \/ Validate
    \/ LoopHead
    \/ LoopExit
    \/ SaveDump
    \/ StopCheck
    \/ ReadFeedback
    \/ GetCommitBefore
    \/ RunCodex
    \/ CodexExit
    \/ CodexNotFound
    \/ GetCommitAfter
    \/ CircuitBreaker
    \/ HandleExitCode
    \/ ReturnExit
    \/ Checkpoint
    \/ ReturnCheckpoint
    \/ ReturnMax
    \/ HumanStop
    \/ HumanPost
    \/ Tick

SpecFeedback == InitDefault /\ [][NextFeedback]_vars

\* the Controller, the stop sentinel and the polling Dashboard
NextMonitor ==
    \/ Validate
    \/ LoopHead
    \/ LoopExit
    \/ SaveDump
    \/ StopCheck
    \/ ReadFeedback
    \/ GetCommitBefore
    \/ RunCodex
    \/ CodexExit
    \/ CodexNotFound
    \/ GetCommitAfter
    \/ CircuitBreaker
    \/ HandleExitCode
    \/ ReturnExit
    \/ Checkpoint
    \/ ReturnCheckpoint
    \/ ReturnMax
    \/ HumanStop
    \/ MonitorStart
    \/ MonitorRead
    \/ MonitorInterrupt

SpecMonitor == InitDefault /\ [][NextMonitor]_vars

\* the steps of run(), with the agent subprocess returning
Controller ==
    \/ Validate
    \/ LoopHead
    \/ LoopExit
    \/ SaveDump
    \/ StopCheck
    \/ ReadFeedback
    \/ GetCommitBefore
    \/ RunCodex
    \/ CodexExit
    \/ CodexNotFound
    \/ GetCommitAfter
    \/ CircuitBreaker
    \/ HandleExitCode
    \/ ReturnExit
    \/ Checkpoint
    \/ ReturnCheckpoint
    \/ ReturnMax

\* run() is a sequential process that keeps executing, and subprocess.run
\* returns once the agent exits: weak fairness on the Controller's steps
SpecFair == InitDefault /\ [][Next]_vars /\ WF_vars(Controller)

\* Config with max_iterations and checkpoint_interval positive and each
\* breaker threshold at its smallest positive or its largest value; the
\* steering documents present or not
InitPositive ==
    /\ max_iterations \in 1..MaxIterationsBound
    /\ checkpoint_interval \in 1..MaxCheckpointBound
    /\ max_no_progress \in {1, MaxNoProgressBound}
    /\ max_consecutive_failures \in {1, MaxFailuresBound}
    /\ steering_ok \in BOOLEAN
    /\ codex_installed \in BOOLEAN
    /\ InitRun
    /\ InitStore

\* the same fairness over these Configs
SpecFairPositive == InitPositive /\ [][Next]_vars /\ WF_vars(Controller)

\* the Controller run again after it returned, on the files it left
NextRerun ==
    \/ Validate
    \/ LoopHead
    \/ LoopExit
    \/ SaveDump
    \/ StopCheck
    \/ ReadFeedback
    \/ GetCommitBefore
    \/ RunCodex
    \/ CodexExit
    \/ CodexNotFound
    \/ GetCommitAfter
    \/ CircuitBreaker
    \/ HandleExitCode
    \/ ReturnExit
    \/ Checkpoint
    \/ ReturnCheckpoint
    \/ ReturnMax
    \/ HumanStop
    \/ NewRun

SpecRerun == InitDefault /\ [][NextRerun]_vars

(* ---- State.save, State.load and read_state called on a document ---- *)
StatusSample == RunStatusNames
TaskSample == TaskStatusNames
CurrentSample == {0, 5}
SpecifiedSample == {5, 50}
LinesSample == {0, 1200}
FilesSample == {0, 10}
DescriptionSample == {"", "Implement auth"}
OutputSample == {"", "Iteration 5 starting..."}

States ==
    {State(s, c, m, l, f, d, t, o, ts) :
        s \in StatusSample, c \in CurrentSample, m \in SpecifiedSample,
        l \in LinesSample, f \in FilesSample, d \in DescriptionSample,
        t \in TaskSample, o \in OutputSample, ts \in 0..MaxClock}

\* documents found at the path before any save: none, malformed ones, and
\* JSON objects with keys missing or an enum value no member has
FoundDocs ==
    {NoDoc}
    \cup {[NoDoc EXCEPT !.kind = k] : k \in MalformedKinds}
    \cup {[json_dump(create_waiting_state(5, 0)) EXCEPT !.keys = AllKeys \ {k}] :
             k \in AllKeys}
    \cup {[json_dump(create_waiting_state(5, 0)) EXCEPT !.body.status = "paused"],
          [json_dump(create_waiting_state(5, 0)) EXCEPT !.body.task_status = "done"]}

InitState ==
    /\ max_iterations = 5
    /\ checkpoint_interval = 1
    /\ max_no_progress = 1
    /\ max_consecutive_failures = 1
    /\ steering_ok = TRUE
    /\ codex_installed = TRUE
    /\ InitRun
    /\ head = NoCommit
    /\ mem_state \in States
    /\ disk_doc \in FoundDocs
    /\ load_result = LoadNone
    /\ read_result = LoadNone
    /\ store_op = "none"
    /\ saved = FALSE
    /\ fb_ret = NoPath

StSave ==
    /\ disk_doc' = json_dump(mem_state)
    /\ saved' = TRUE
    /\ store_op' = "save"
    /\ UNCHANGED <<mem_state, load_result, read_result, fb_ret>>
    /\ UNCHANGED <<config_vars, runner_vars, env_vars, monitor_vars, hist_vars>>

StLoad ==
    /\ load_result' = State_load(disk_doc, now)
    /\ store_op' = "load"
    /\ UNCHANGED <<mem_state, disk_doc, read_result, saved, fb_ret>>
    /\ UNCHANGED <<config_vars, runner_vars, env_vars, monitor_vars, hist_vars>>

StRead ==
    /\ read_result' = read_state(disk_doc, max_iterations, now)
    /\ store_op' = "read"
    /\ UNCHANGED <<mem_state, disk_doc, load_result, saved, fb_ret>>
    /\ UNCHANGED <<config_vars, runner_vars, env_vars, monitor_vars, hist_vars>>

NextState ==
    \/ StSave
    \/ StLoad
    \/ StRead

SpecState == InitState /\ [][NextState]_vars

(* ---- FeedbackManager called on its own ---- *)
InitFeedbackStore ==
    /\ max_iterations = 1
    /\ checkpoint_interval = 1
    /\ max_no_progress = 1
    /\ max_consecutive_failures = 1
    /\ steering_ok = TRUE
    /\ codex_installed = TRUE
    /\ InitRun
    /\ head = NoCommit
    /\ InitStore

FbPost ==
    /\ posted < MaxPosts
    /\ posted' = posted + 1
    /\ pending_file' = post_feedback(pending_file, posted + 1)
    /\ store_op' = "post"
    /\ UNCHANGED <<head, state_file, stop_file, archive, archive_dir, now>>
    /\ UNCHANGED <<mem_state, disk_doc, load_result, read_result, saved, fb_ret>>
    /\ UNCHANGED <<config_vars, runner_vars, monitor_vars, hist_vars>>

FbArchive ==
    /\ LET r == archive_feedback(pending_file, archive, archive_dir, now) IN
         /\ pending_file' = r.pending
         /\ archive' = r.archive
         /\ archive_dir' = r.dir
         /\ fb_ret' = r.ret
    /\ store_op' = "archive"
    /\ UNCHANGED <<head, state_file, stop_file, now, posted>>
    /\ UNCHANGED <<mem_state, disk_doc, load_result, read_result, saved>>
    /\ UNCHANGED <<config_vars, runner_vars, monitor_vars, hist_vars>>

FbClear ==
    /\ pending_file' = clear_feedback(pending_file).pending
    /\ store_op' = "clear"
    /\ UNCHANGED <<head, state_file, stop_file, archive, archive_dir, now, posted>>
    /\ UNCHANGED <<mem_state, disk_doc, load_result, read_result, saved, fb_ret>>
    /\ UNCHANGED <<config_vars, runner_vars, monitor_vars, hist_vars>>

FbRead ==
    /\ feedback_content' = read_pending_feedback(pending_file)
    /\ store_op' = "read"
    /\ UNCHANGED <<pc, iteration, consecutive_failures, no_progress_count,
                   commit_before, commit_after, exit_code, save_return,
                   retval, outcome>>
    /\ UNCHANGED <<mem_state, disk_doc, load_result, read_result, saved, fb_ret>>
    /\ UNCHANGED <<config_vars, env_vars, monitor_vars, hist_vars>>

FbTick ==
    /\ now < MaxClock
    /\ now' = now + 1
    /\ UNCHANGED <<head, state_file, stop_file, pending_file, archive,
                   archive_dir, posted>>
    /\ UNCHANGED <<store_vars, config_vars, runner_vars, monitor_vars, hist_vars>>

NextFeedbackStore ==
    \/ FbPost
    \/ FbArchive
    \/ FbClear
    \/ FbRead
    \/ FbTick

SpecFeedbackStore == InitFeedbackStore /\ [][NextFeedbackStore]_vars

(***************************************************************************)
(* Properties                                                              *)
(***************************************************************************)
\* the last persisted snapshot is complete and has status STOPPED
StoppedSnapshot == load_ok(state_file) /\ state_file.snap.status = "stopped"

\* the marker comparisons completed so far in this run
Compared == IF pc \in {"codex", "commit_after", "breaker"}
            THEN invocations - 1 ELSE invocations

\* a configuration with positive limits and an agent command that exists
SaneConfig ==
    /\ max_iterations >= 1
    /\ checkpoint_interval >= 1
    /\ max_no_progress >= 1
    /\ max_consecutive_failures >= 1
    /\ codex_installed

\* C1: whenever the agent returned 99 the run ends in that iteration with
\* the success outcome (run() returns 0, snapshot STOPPED), also when the
\* marker did not change and noProgressCount was maxNoProgress-1 before.
C1_Exit99AlwaysSuccess ==
    (SaneConfig /\ exit_code = EXIT_COMPLETE) =>
        /\ pc \notin {"checkpoint", "loop", "stop_check", "run_codex"}
        /\ pc = "done" => (retval = 0 /\ outcome = "Complete" /\ StoppedSnapshot)

\* C2: with maxConsecutiveFailures=3, three consecutive exit codes 1 and a
\* marker that never changes end the run Escalated with a STOPPED snapshot
\* after the 3rd invocation, for every maxNoProgress >= 1.
C2_ThreeFailuresEscalate ==
    (/\ SaneConfig
     /\ max_consecutive_failures = 3
     /\ all_unchanged
     /\ invocations = 3
     /\ exit_code = EXIT_FAILED
     /\ consecutive_failures >= 2
     /\ pc = "done") =>
        (outcome = "Escalated" /\ StoppedSnapshot)

\* C3 as stated: a run whose marker never changed ends with the
\* CircuitBreaker outcome, for all exit codes, checkpointInterval and
\* maxIterations.
C3_UnchangedEndsInBreaker ==
    (/\ pc = "done"
     /\ all_unchanged
     /\ invocations >= 1
     /\ SaneConfig
     /\ outcome # "Stop") =>
        outcome = "CircuitBreaker"

\* C3 amended: while the marker never changed, noProgressCount equals the
\* number of iterations compared so far (one more per iteration); once it
\* reaches maxNoProgress (>= 1) the run is over with the CircuitBreaker
\* outcome and return value 1, so no further invocation follows.  The run
\* may end earlier with another outcome.
C3_NoProgressCountsToBreaker ==
    all_unchanged =>
        /\ no_progress_count = Compared
        /\ (max_no_progress >= 1 /\ no_progress_count >= max_no_progress) =>
              /\ no_progress_count = max_no_progress
              /\ pc = "done"
              /\ outcome = "CircuitBreaker"
              /\ retval = 1

C3_Witness ==
    /\ pc = "done"
    /\ outcome = "CircuitBreaker"
    /\ all_unchanged
    /\ max_no_progress = 3
    /\ no_progress_count = 3
    /\ invocations = 3

\* C4 as stated: consecutiveFailures never exceeds maxConsecutiveFailures.
C4_FailuresAtMostMax == consecutive_failures <= max_consecutive_failures

\* C4 amended: when maxConsecutiveFailures >= 1, consecutiveFailures never
\* exceeds it, and a state where the two are equal is the escalation: the
\* run only writes the STOPPED snapshot and returns 1 (Escalated).
C4_FailuresBoundedThenEscalated ==
    max_consecutive_failures >= 1 =>
        /\ consecutive_failures <= max_consecutive_failures
        /\ consecutive_failures = max_consecutive_failures =>
              /\ outcome = "Escalated"
              /\ exit_code = EXIT_FAILED
              /\ pc \in {"saving", "return_exit", "done"}
              /\ pc = "done" => retval = 1

C4_Witness ==
    /\ pc = "done"
    /\ outcome = "Escalated"
    /\ max_consecutive_failures = 3
    /\ consecutive_failures = 3
    /\ invocations = 3

\* C5: every fatal termination (escalation, circuit breaker, unknown exit
\* code, missing steering documents) leaves a last snapshot with status
\* STOPPED.
C5_FatalStopWritesStopped ==
    (/\ SaneConfig
     /\ pc = "done"
     /\ outcome \in {"Escalated", "CircuitBreaker", "Unknown", "NoSteering"}) =>
        StoppedSnapshot

\* the value run() returns for each of the five named terminal outcomes
ReturnOfOutcome(o) ==
    run_returns(o, IF o = "Complete" THEN EXIT_COMPLETE ELSE EXIT_FAILED)

NamedOutcomes == {"Checkpoint", "Escalated", "CircuitBreaker", "Complete",
                  "MaxIterations"}

\* C6: the return value of run() tells the terminal outcomes apart: it is
\* never the value another outcome returns, also for an unknown exit code.
C6_ReturnValuesDistinct ==
    (SaneConfig /\ pc = "done" /\ outcome \in NamedOutcomes \cup {"Unknown"}) =>
        \A o \in NamedOutcomes \ {outcome} : retval # ReturnOfOutcome(o)

\* C7: a Dashboard read never sees a truncated or partial snapshot file.
C7_ReadNeverPartial == monitor_raw # "partial"

\* C8: the feedback log is archived only in an iteration with exit code 0,
\* a changed marker, and feedback that was read into that iteration's prompt.
C8_ArchiveOnlyReadFeedback ==
    [][archive' # archive =>
         (/\ exit_code = EXIT_OK
          /\ commit_before # commit_after
          /\ feedback_content.exists)]_vars

\* C9: the Controller changes the pending log or the archive only in the
\* exit-code-0 handling of an iteration whose marker changed; every other
\* change of the log is a post by the human.
C9_FeedbackKeptWithoutSuccess ==
    [][(pending_file' # pending_file \/ archive' # archive) =>
         \/ (posted' = posted + 1 /\ archive' = archive)
         \/ (/\ pc = "handle"
             /\ exit_code = EXIT_OK
             /\ commit_before # commit_after)]_vars

C9_Witness ==
    /\ pc = "loop"
    /\ iteration >= 1
    /\ feedback_content.exists
    /\ pending_file = feedback_content
    /\ (exit_code # EXIT_OK \/ commit_before = commit_after)

\* C10: a stop check that finds the sentinel deletes it, returns 0 without
\* invoking the agent and leaves consecutiveFailures, noProgressCount and
\* the feedback log unchanged.
C10_StopSentinelStopsRun ==
    [][(pc = "stop_check" /\ stop_file /\ pc' # pc) =>
         /\ stop_file' = FALSE
         /\ pc' = "done"
         /\ retval' = 0
         /\ invocations' = invocations
         /\ UNCHANGED <<consecutive_failures, no_progress_count,
                        pending_file, archive>>]_vars

C10_Witness ==
    /\ pc = "done"
    /\ outcome = "Stop"
    /\ retval = 0
    /\ ~stop_file
    /\ iteration = 2
    /\ invocations = 1
    /\ pending_file.exists

\* C11: for checkpointInterval k >= 1 the checkpoint pause happens at
\* iteration k and at no earlier iteration, and the loop never continues
\* past iteration k, so the pause fires exactly once.
C11_CheckpointAtInterval ==
    checkpoint_interval >= 1 =>
        /\ iteration <= checkpoint_interval
        /\ outcome = "Checkpoint" => iteration = checkpoint_interval
        /\ (pc = "loop" /\ iteration >= 1) => iteration < checkpoint_interval

C11_Witness ==
    /\ pc = "done"
    /\ outcome = "Checkpoint"
    /\ checkpoint_interval = 3
    /\ iteration = 3
    /\ invocations = 3

MalformedDoc(doc) ==
    \/ doc.kind = "absent"
    \/ doc.kind \in MalformedKinds
    \/ /\ doc.kind = "object"
       /\ \/ RequiredKeys \ doc.keys # {}
          \/ enum_member(RunStatusValue, doc.body.status) = "INVALID"
          \/ enum_member(TaskStatusValue, doc.body.task_status) = "INVALID"

\* C13: for a missing file and for every malformed content State.load
\* returns None without raising, and read_state yields the waiting state
\* (status waiting, iteration current 0).
C13_LoadMalformedIsAbsent ==
    (~saved /\ MalformedDoc(disk_doc)) =>
        /\ store_op = "load" => load_result = LoadNone
        /\ store_op = "read" =>
              /\ ~read_result.raised
              /\ read_result.ok
              /\ read_result.state.status = "WAITING"
              /\ read_result.state.current = 0

\* C14: archive() with nothing pending returns None and changes nothing:
\* the pending log stays absent, no archive file and no archive directory
\* is created, however often it is called.
C14_ArchiveNothingPending ==
    [][(FbArchive /\ ~has_pending_feedback(pending_file)) =>
         /\ fb_ret' = NoPath
         /\ UNCHANGED <<pending_file, archive, archive_dir>>]_vars

C14_Witness ==
    /\ store_op = "archive"
    /\ fb_ret = NoPath
    /\ ~has_pending_feedback(pending_file)
    /\ ~archive_dir
    /\ posted = 1

\* C15: load after save returns a State equal to the saved one in every
\* field.
C15_SaveLoadRoundTrip ==
    (saved /\ store_op = "load") => load_result = LoadState(mem_state)

C15_Witness ==
    /\ saved
    /\ store_op = "load"
    /\ mem_state = State("RUNNING", 5, 50, 1200, 10, "Implement auth",
                         "IN_PROGRESS", "", 0)
    /\ load_result.ok
    /\ load_result.state = mem_state
    /\ disk_doc.body.status = "running"

\* C16: every snapshot the Controller persists has iteration.specified =
\* max_iterations and, when max_iterations > 0, 1 <= iteration.current <=
\* iteration.specified; iteration.current never decreases from one snapshot
\* of the run to the next.
C16_SnapshotIterationBounds ==
    /\ [](state_file.exists =>
            /\ state_file.snap.specified = max_iterations
            /\ max_iterations > 0 =>
                  /\ 1 <= state_file.snap.current
                  /\ state_file.snap.current <= state_file.snap.specified)
    /\ [][(state_file.exists /\ state_file'.exists) =>
            state_file'.snap.current >= state_file.snap.current]_vars

C16_Witness ==
    /\ load_ok(state_file)
    /\ state_file.snap.status = "running"
    /\ state_file.snap.current = 2
    /\ state_file.snap.specified = 3
    /\ max_iterations = 3
    /\ pc = "stop_check"

\* C17: when no iteration ends the loop earlier, the Controller issues exactly
\* max_iterations agent invocations and no more, then persists a snapshot with
\* status STOPPED, task status PENDING and current = specified =
\* max_iterations, and run() returns 2 with the MaxIterations outcome.
C17_MaxIterationsEndsRun ==
    /\ [](invocations <= max_iterations)
    /\ [](outcome = "MaxIterations" =>
            /\ invocations = max_iterations
            /\ iteration = max_iterations
            /\ pc \in {"saving", "return_max", "done"}
            /\ state_file.exists
            /\ state_file.snap = MkState("stopped", max_iterations,
                                         max_iterations, "pending"))
    /\ []((pc = "done" /\ outcome = "MaxIterations") =>
            /\ retval = 2
            /\ StoppedSnapshot)
    /\ [][(pc = "loop" /\ pc' # "loop" /\ invocations = max_iterations) =>
            (outcome' = "MaxIterations" /\ pc' = "saving"
             /\ invocations' = invocations)]_vars

C17_Witness ==
    /\ pc = "done"
    /\ outcome = "MaxIterations"
    /\ retval = 2
    /\ max_iterations = 2
    /\ invocations = 2
    /\ StoppedSnapshot
    /\ state_file.snap.task_status = "pending"
    /\ state_file.snap.current = 2
    /\ state_file.snap.specified = 2

\* C18: an agent exit code outside {0, 1, 99} ends the run in the iteration
\* that produced it: no further invocation is issued, consecutive_failures is
\* not changed, the feedback log is not archived, and run() returns a
\* non-zero value.
C18_UnknownExitCodeIsFatal ==
    /\ [](exit_code \notin {EXIT_OK, EXIT_FAILED, EXIT_COMPLETE, NoExit} =>
            /\ pc \in {"commit_after", "breaker", "handle", "saving",
                       "return_exit", "done"}
            /\ outcome \in {"none", "Unknown", "CircuitBreaker"}
            /\ pc = "done" => retval # 0)
    /\ [][exit_code' \notin {EXIT_OK, EXIT_FAILED, EXIT_COMPLETE, NoExit} =>
            /\ invocations' = invocations
            /\ consecutive_failures' = consecutive_failures
            /\ archive' = archive
            /\ archive_dir' = archive_dir
            /\ has_pending_feedback(pending_file) =>
                  (has_pending_feedback(pending_file')
                   /\ pending_file'.content[1] = pending_file.content[1])]_vars

C18_Witness ==
    /\ pc = "done"
    /\ outcome = "Unknown"
    /\ exit_code = EXIT_OTHER
    /\ retval = EXIT_OTHER
    /\ commit_before # commit_after
    /\ has_pending_feedback(pending_file)
    /\ feedback_content = pending_file
    /\ consecutive_failures = 2
    /\ invocations = 3

\* C19: once the stop sentinel exists and nobody else removes it, the
\* Controller eventually terminates (every agent invocation returning), at
\* most one agent invocation begins after the sentinel was created, and the
\* sentinel is acted on only at the per-iteration check, never while an
\* invocation is in progress.
C19_StopSentinelEventuallyStops ==
    /\ stop_file ~> (pc \in {"done", "crashed"})
    /\ [](stop_file => since_stop <= 1)
    /\ [][(stop_file /\ ~stop_file') =>
            (pc = "stop_check" /\ pc' = "done" /\ outcome' = "Stop"
             /\ retval' = 0)]_vars
    /\ [][(pc = "codex" /\ pc' # "codex") =>
            (pc' = "commit_after" /\ exit_code' \in ExitCodes
             /\ outcome' = "none")]_vars
    /\ [][(pc = "stop_check" /\ pc' # "stop_check" /\ stop_file) =>
            (pc' = "done" /\ outcome' = "Stop")]_vars

C19_Witness ==
    /\ pc = "done"
    /\ outcome = "Stop"
    /\ retval = 0
    /\ ~stop_file
    /\ since_stop = 1
    /\ invocations = 2
    /\ iteration = 3

\* C20: no Dashboard action (first read, polling read and render, exit on
\* interrupt) creates, modifies or deletes the state file, the feedback log
\* or the stop sentinel; the state file changes only in the Controller's
\* save.
C20_DashboardOnlyReads ==
    /\ [][(monitor_vars' # monitor_vars) =>
            UNCHANGED <<state_file, pending_file, archive, archive_dir,
                        stop_file>>]_vars
    /\ [][(state_file' # state_file) =>
            (pc' = "saving" \/ pc = "saving")]_vars
    /\ [][(state_file' # state_file) => UNCHANGED monitor_vars]_vars

C20_Witness ==
    /\ monitor_pc = "stopped"
    /\ monitor_raw = "complete"
    /\ last_state = state_file.snap
    /\ last_state.status = "running"
    /\ last_state.current = 2
    /\ load_ok(state_file)
    /\ stop_file
    /\ pc = "codex"

\* C21: whenever the loop continues after an iteration, consecutive_failures
\* is the length of the trailing run of exit-code-1 iterations (0 right after
\* an exit-code-0 iteration) and no_progress_count is the length of the
\* trailing run of iterations whose marker was unchanged (0 right after an
\* iteration whose marker changed); nothing else changes either counter.
C21_CountersAreTrailingRuns ==
    /\ []((pc \in {"loop", "stop_check", "read_feedback", "commit_before",
                    "run_codex"}) =>
            /\ consecutive_failures = trailing_failures
            /\ no_progress_count = trailing_unchanged
            /\ exit_code = EXIT_OK => consecutive_failures = 0
            /\ (iteration >= 1 /\ pc = "loop"
                /\ commit_before # commit_after) => no_progress_count = 0)
    /\ [][consecutive_failures' # consecutive_failures =>
            (pc = "handle" /\ exit_code \in {EXIT_OK, EXIT_FAILED})]_vars
    /\ [][no_progress_count' # no_progress_count => pc = "breaker"]_vars

C21_Witness ==
    /\ pc = "loop"
    /\ iteration = 2
    /\ consecutive_failures = 2
    /\ trailing_failures = 2
    /\ no_progress_count = 1
    /\ trailing_unchanged = 1
    /\ exit_code = EXIT_FAILED

\* C22: the checkpoint pause fires at an iteration divisible by
\* checkpoint_interval only when the loop is still continuing there (breaker
\* not tripped, exit code 0 or exit code 1 below the failure threshold); it
\* persists STOPPED/PENDING and returns 2. Where the circuit breaker or the
\* exit-code policy ends such an iteration, their outcome is returned and no
\* checkpoint snapshot is written.
C22_CheckpointOnlyWhenContinuing ==
    /\ [](outcome = "Checkpoint" =>
            /\ checkpoint_interval >= 1
            /\ iteration % checkpoint_interval = 0
            /\ commit_before # commit_after \/ no_progress_count < max_no_progress
            /\ \/ exit_code = EXIT_OK
               \/ (exit_code = EXIT_FAILED
                   /\ consecutive_failures < max_consecutive_failures)
            /\ state_file.exists
            /\ state_file.snap = MkState("stopped", iteration, max_iterations,
                                         "pending")
            /\ pc \in {"saving", "return_checkpoint", "done"}
            /\ pc = "done" => (retval = 2 /\ StoppedSnapshot))
    /\ []((pc = "done" /\ checkpoint_interval >= 1 /\ iteration >= 1
           /\ outcome \in {"CircuitBreaker", "Complete", "Escalated", "Unknown"}) =>
            (iteration % checkpoint_interval = 0 =>
               /\ retval = (CASE outcome = "CircuitBreaker" -> 1
                              [] outcome = "Complete" -> 0
                              [] outcome = "Escalated" -> 1
                              [] OTHER -> exit_code)
               /\ state_file.exists
               /\ ~(state_file.snap.status = "stopped"
                    /\ state_file.snap.task_status = "pending")))
    /\ [][(pc = "checkpoint" /\ pc' # "checkpoint"
           /\ iteration % checkpoint_interval = 0) =>
            (outcome' = "Checkpoint" /\ pc' = "saving")]_vars

C22_Witness ==
    /\ pc = "done"
    /\ outcome = "Checkpoint"
    /\ retval = 2
    /\ checkpoint_interval = 2
    /\ iteration = 2
    /\ exit_code = EXIT_FAILED
    /\ consecutive_failures = 2
    /\ no_progress_count = 1
    /\ StoppedSnapshot
    /\ state_file.snap.task_status = "pending"

\* C23: an iteration is "no progress" exactly when the marker captured
\* before the invocation equals the one captured after it, absent being
\* equal to absent: with the marker absent throughout, no_progress_count
\* grows in every iteration; a change between absent and a revision, either
\* way, resets it to 0. An absent marker does not end the run by itself.
C23_AbsentMarkerComparesEqual ==
    /\ [][(pc = "breaker" /\ pc' # "breaker") =>
            /\ (commit_before = commit_after) =>
                  no_progress_count' = no_progress_count + 1
            /\ (commit_before # commit_after) => no_progress_count' = 0
            /\ (commit_before = NoCommit /\ commit_after = NoCommit) =>
                  no_progress_count' = no_progress_count + 1
            /\ ((commit_before = NoCommit) # (commit_after = NoCommit)) =>
                  (no_progress_count' = 0 /\ pc' = "handle")]_vars
    /\ [][(pc = "commit_before" /\ pc' # "commit_before") =>
            (commit_before' = head /\ pc' = "run_codex"
             /\ outcome' = "none")]_vars
    /\ [][(pc = "commit_after" /\ pc' # "commit_after") =>
            (commit_after' = head /\ pc' = "breaker"
             /\ outcome' = "none")]_vars
    /\ []((all_unchanged /\ pc = "loop") => no_progress_count = iteration)

C23_Witness ==
    /\ pc = "handle"
    /\ head = NoCommit
    /\ commit_before = NoCommit
    /\ commit_after = NoCommit
    /\ all_unchanged
    /\ iteration = 2
    /\ no_progress_count = 2
    /\ outcome = "none"

\* C24: every run of the Controller starts with iteration 0,
\* consecutive_failures 0 and no_progress_count 0 whatever snapshot an
\* earlier run left in the state file, which the Controller does not read;
\* so over several runs the agent invocations add up beyond max_iterations
\* (each run contributing at most max_iterations).
C24_RunsStartFromZero ==
    /\ [](pc = "validate" =>
            (iteration = 0 /\ consecutive_failures = 0
             /\ no_progress_count = 0))
    /\ [][runs' # runs =>
            /\ pc' = "validate"
            /\ iteration' = 0
            /\ consecutive_failures' = 0
            /\ no_progress_count' = 0
            /\ state_file' = state_file]_vars
    /\ []((runs >= 2 /\ pc = "stop_check") =>
            (state_file.snap.current = iteration /\ iteration >= 1))
    /\ [](iteration <= max_iterations /\ invocations <= runs * max_iterations)

C24_Witness ==
    /\ runs = 2
    /\ pc = "done"
    /\ outcome = "Checkpoint"
    /\ max_iterations = 3
    /\ checkpoint_interval = 2
    /\ iteration = 2
    /\ invocations = 4
    /\ invocations > max_iterations

\* C25: every archive_feedback() called while feedback is pending removes
\* the pending log and creates an archive entry holding exactly the pending
\* content of that moment, and no archive entry made by an earlier call is
\* overwritten or lost, also when two calls fall in the same second.
C25_ArchiveKeepsEarlierEntries ==
    [][(FbArchive /\ has_pending_feedback(pending_file)) =>
         /\ ~has_pending_feedback(pending_file')
         /\ fb_ret' # NoPath
         /\ archive'[fb_ret'] = pending_file
         /\ \A t \in DOMAIN archive :
               archive[t].exists => archive'[t] = archive[t]]_vars

Min(a, b) == IF a <= b THEN a ELSE b

\* C26: in one run the agent is invoked at most min(max_iterations,
\* checkpoint_interval) times; the MaxIterations outcome occurs only when
\* max_iterations < checkpoint_interval, and when max_iterations is a
\* multiple of checkpoint_interval the run does not end as MaxIterations.
C26_FirstBoundaryEndsRun ==
    /\ invocations <= Min(max_iterations, checkpoint_interval)
    /\ outcome = "MaxIterations" => max_iterations < checkpoint_interval
    /\ (checkpoint_interval >= 1 /\ pc = "done"
        /\ max_iterations % checkpoint_interval = 0) =>
          outcome # "MaxIterations"

\* C26 amended: for max_iterations >= 0 and checkpoint_interval >= 0 the
\* agent is invoked at most min(max_iterations, checkpoint_interval) times
\* and a checkpoint pause happens at iteration checkpoint_interval; the
\* MaxIterations outcome occurs only when max_iterations <
\* checkpoint_interval or max_iterations = 0; when max_iterations >= 1 is a
\* multiple of checkpoint_interval >= 1 the run does not end as MaxIterations.
C26_FirstBoundaryEndsRunNonZero ==
    /\ invocations <= Min(max_iterations, checkpoint_interval)
    /\ outcome = "Checkpoint" => iteration = checkpoint_interval
    /\ outcome = "MaxIterations" =>
          (max_iterations < checkpoint_interval \/ max_iterations = 0)
    /\ (checkpoint_interval >= 1 /\ max_iterations >= 1
        /\ max_iterations % checkpoint_interval = 0) =>
          outcome # "MaxIterations"

C26_Witness ==
    /\ pc = "done"
    /\ outcome = "Checkpoint"
    /\ max_iterations = 2
    /\ checkpoint_interval = 2
    /\ iteration = 2
    /\ invocations = 2
    /\ retval = 2
    /\ exit_code = EXIT_OK
    /\ commit_before # commit_after

\* C27: with max_no_progress >= 1 and max_consecutive_failures >= 1, at the
\* moment of every agent invocation no_progress_count < max_no_progress and
\* consecutive_failures < max_consecutive_failures.
C27_NoInvocationAtThreshold ==
    /\ []((max_no_progress >= 1 /\ max_consecutive_failures >= 1
           /\ pc \in {"run_codex", "codex"}) =>
            /\ no_progress_count < max_no_progress
            /\ consecutive_failures < max_consecutive_failures)
    /\ [][(max_no_progress >= 1 /\ max_consecutive_failures >= 1
           /\ invocations' # invocations) =>
            /\ no_progress_count < max_no_progress
            /\ consecutive_failures < max_consecutive_failures
            /\ UNCHANGED <<no_progress_count, consecutive_failures>>]_vars

C27_Witness ==
    /\ pc = "codex"
    /\ max_no_progress = 2
    /\ no_progress_count = 1
    /\ max_consecutive_failures = 3
    /\ consecutive_failures = 2
    /\ invocations = 3

\* C28: run() returns 0 exactly when the run ended by the stop sentinel or
\* by exit code 99 handled by the exit-code policy; an iteration with exit
\* code 0 does not end the run with 0: it continues, pauses at a checkpoint
\* with 2, or trips the circuit breaker with 1.
C28_ZeroOnlyForStopOrComplete ==
    /\ [](pc = "done" =>
            /\ (retval = 0) <=> (outcome \in {"Stop", "Complete"})
            /\ outcome = "Complete" => exit_code = EXIT_COMPLETE
            /\ (exit_code = EXIT_OK /\ outcome # "Stop") => retval \in {1, 2})
    /\ [][(pc = "handle" /\ exit_code = EXIT_OK) => pc' \in {"handle", "checkpoint"}]_vars
    /\ [][(pc \in {"breaker", "checkpoint"} /\ exit_code = EXIT_OK /\ pc' = "done") =>
            (outcome' = "CircuitBreaker" /\ retval' = 1)]_vars
    /\ [][(pc = "return_checkpoint" /\ pc' = "done") => retval' = 2]_vars

C28_Witness ==
    /\ pc = "done"
    /\ retval = 0
    /\ outcome = "Complete"
    /\ exit_code = EXIT_COMPLETE
    /\ iteration = 2
    /\ StoppedSnapshot

\* C29: on the stop-sentinel path the Controller writes no snapshot after
\* detecting the sentinel: the last persisted snapshot is the one written at
\* the start of that iteration (RUNNING, IN_PROGRESS), so after run()
\* returned 0 the Dashboard keeps reading RUNNING.
C29_StopLeavesRunningSnapshot ==
    /\ [](outcome = "Stop" =>
            /\ pc = "done" /\ retval = 0
            /\ load_ok(state_file)
            /\ state_file.snap = MkState("running", iteration, max_iterations,
                                         "in_progress")
            /\ last_state.status \in {"waiting", "running"})
    /\ [][(outcome = "Stop" \/ outcome' = "Stop") => state_file' = state_file]_vars
    /\ [][(outcome = "Stop" /\ monitor_pc = "polling"
           /\ monitor_vars' # monitor_vars /\ monitor_pc' = "polling") =>
            (monitor_raw' = "complete" /\ last_state' = state_file.snap
             /\ last_state'.status = "running")]_vars

C29_Witness ==
    /\ pc = "done"
    /\ outcome = "Stop"
    /\ retval = 0
    /\ ~stop_file
    /\ iteration = 2
    /\ state_file.snap.status = "running"
    /\ state_file.snap.task_status = "in_progress"
    /\ state_file.snap.current = 2
    /\ monitor_pc = "polling"
    /\ monitor_raw = "complete"
    /\ last_state = state_file.snap

\* C30: every agent invocation of iteration i is preceded, within that
\* iteration, by exactly one persisted snapshot RUNNING / IN_PROGRESS with
\* iteration.current = i, then by the stop-sentinel check, the feedback read
\* and the capture of the "before" marker, in that order; the "after" marker
\* is captured only after the agent has returned.
C30_IterationStepOrder ==
    /\ []((pc \in {"stop_check", "read_feedback", "commit_before",
                    "run_codex", "codex"}) =>
            /\ load_ok(state_file)
            /\ state_file.snap = MkState("running", iteration, max_iterations,
                                         "in_progress")
            /\ iteration >= 1
            /\ invocations = IF pc = "codex" THEN iteration ELSE iteration - 1)
    /\ [][(pc \in {"stop_check", "read_feedback", "commit_before",
                    "run_codex", "codex"}) => state_file' = state_file]_vars
    /\ [][(pc' # pc /\ pc' = "stop_check") =>
            (pc = "saving" /\ save_return = "stop_check")]_vars
    /\ [][(pc' # pc /\ pc' = "saving" /\ save_return' = "stop_check") =>
            (pc = "loop" /\ iteration' = iteration + 1
             /\ state_file'.snap.current = iteration + 1)]_vars
    /\ [][(pc' # pc /\ pc' = "read_feedback") => pc = "stop_check"]_vars
    /\ [][(pc' # pc /\ pc' = "commit_before") =>
            (pc = "read_feedback"
             /\ feedback_content' = read_pending_feedback(pending_file))]_vars
    /\ [][(pc' # pc /\ pc' = "run_codex") =>
            (pc = "commit_before" /\ commit_before' = head)]_vars
    /\ [][invocations' # invocations =>
            (pc = "run_codex" /\ invocations' = invocations + 1
             /\ UNCHANGED <<commit_before, commit_after, feedback_content>>)]_vars
    /\ [][(pc' # pc /\ pc' = "commit_after") =>
            (pc \in {"codex", "run_codex"} /\ exit_code' \in ExitCodes)]_vars
    /\ [][commit_after' # commit_after =>
            (pc = "commit_after" /\ commit_after' = head
             /\ exit_code \in ExitCodes /\ invocations = iteration)]_vars

C30_Witness ==
    /\ pc = "breaker"
    /\ iteration = 2
    /\ invocations = 2
    /\ load_ok(state_file)
    /\ state_file.snap = MkState("running", 2, max_iterations, "in_progress")
    /\ commit_before = 1
    /\ commit_after = 2
    /\ head = 2
    /\ exit_code = EXIT_OK

LoopOutcomes == {"Stop", "Complete", "Escalated", "CircuitBreaker", "Unknown",
                 "Checkpoint", "MaxIterations"}

\* C31: with agent invocations and VCS queries returning, and max_iterations
\* and checkpoint_interval positive, every run terminates in one of the
\* outcomes stop, completion, escalation, circuit breaker, unknown exit
\* code, checkpoint pause or max iterations, after at most max_iterations
\* iterations.
C31_EveryRunTerminates ==
    (max_iterations >= 1 /\ checkpoint_interval >= 1) =>
        /\ <>(pc = "done" /\ outcome \in LoopOutcomes)
        /\ [](iteration <= max_iterations)

\* C31 amended: under the same assumptions every run terminates after at
\* most max_iterations iterations, either in one of the seven loop outcomes
\* or, when the steering documents are missing, with return value 1 before
\* the first iteration.
C31_EveryRunTerminatesOrRejects ==
    (max_iterations >= 1 /\ checkpoint_interval >= 1) =>
        /\ <>(pc = "done" /\ outcome \in LoopOutcomes \cup {"NoSteering"})
        /\ [](iteration <= max_iterations /\ invocations <= max_iterations)
        /\ [](pc # "crashed")
        /\ [](pc = "done" => outcome \in LoopOutcomes \cup {"NoSteering"})
        /\ [](outcome = "NoSteering" =>
                (~steering_ok /\ iteration = 0 /\ invocations = 0
                 /\ retval = 1))
        /\ [](steering_ok => outcome # "NoSteering")

C31_Witness ==
    /\ pc = "done"
    /\ outcome = "MaxIterations"
    /\ max_iterations = 2
    /\ checkpoint_interval = 3
    /\ iteration = 2
    /\ exit_code = EXIT_FAILED
    /\ steering_ok

Max(a, b) == IF a >= b THEN a ELSE b

\* C32: when the agent command cannot be launched the invocation counts as
\* exit code 1 (consecutive_failures incremented, no crash), and with the
\* marker unchanged the run ends by the circuit breaker or by escalation
\* after at most min(max_no_progress, max_consecutive_failures) iterations.
\* Stated for positive max_iterations, checkpoint_interval and thresholds.
C32_NotFoundEndsByBreakerOrEscalation ==
    (~codex_installed /\ max_iterations >= 1 /\ checkpoint_interval >= 1
     /\ max_no_progress >= 1 /\ max_consecutive_failures >= 1) =>
        /\ exit_code \in {NoExit, EXIT_FAILED}
        /\ pc # "crashed"
        /\ iteration <= Min(max_no_progress, max_consecutive_failures)
        /\ (pc = "done" /\ invocations >= 1) =>
              outcome \in {"CircuitBreaker", "Escalated"}

\* C32 amended: the failed launch counts as exit code 1 and does not crash
\* the run; with the marker unchanged the run ends within max(1,
\* min(max_no_progress, max_consecutive_failures)) iterations, by the
\* circuit breaker or by escalation (both returning 1) unless a checkpoint
\* pause, max iterations or the stop sentinel ends it first.
C32_NotFoundCountsAsFailure ==
    /\ [](~codex_installed =>
            /\ exit_code \in {NoExit, EXIT_FAILED}
            /\ all_unchanged
            /\ outcome \notin {"Complete", "Unknown"}
            /\ iteration <= Max(1, Min(max_no_progress,
                                       max_consecutive_failures))
            /\ pc = "checkpoint" =>
                  /\ consecutive_failures = iteration
                  /\ no_progress_count = iteration
                  /\ iteration < max_consecutive_failures
                  /\ iteration < max_no_progress
            /\ (pc = "done" /\ invocations >= 1
                /\ outcome \notin {"Checkpoint", "MaxIterations", "Stop"}) =>
                  (outcome \in {"CircuitBreaker", "Escalated"} /\ retval = 1)
            /\ outcome = "CircuitBreaker" => iteration = Max(1, max_no_progress)
            /\ outcome = "Escalated" =>
                  (iteration = Max(1, max_consecutive_failures)
                   /\ consecutive_failures = iteration))
    /\ [][(~codex_installed /\ pc = "run_codex" /\ pc' # "run_codex") =>
            (pc' = "commit_after" /\ exit_code' = EXIT_FAILED
             /\ invocations' = invocations + 1)]_vars
    /\ [][(~codex_installed /\ pc = "handle" /\ pc' # "handle") =>
            consecutive_failures' = consecutive_failures + 1]_vars

C32_Witness ==
    /\ ~codex_installed
    /\ pc = "done"
    /\ outcome = "Escalated"
    /\ retval = 1
    /\ max_consecutive_failures = 2
    /\ max_no_progress = 3
    /\ iteration = 2
    /\ consecutive_failures = 2
    /\ no_progress_count = 2
    /\ StoppedSnapshot

====
